---- MODULE Spec2Model ----
(***************************************************************************)
(* Day-ahead price pipeline of teems.nordpoolservice.                      *)
(*                                                                         *)
(* Time is counted in whole hours (the provider's fixed cadence); a slot   *)
(* s is the interval [s, s+1).  Two specifications share the variables:    *)
(*   Spec     one invocation of get_batch_of_prices (prices.py), stepped   *)
(*            at its await points;                                         *)
(*   AlgSpec  the reconciliation operations of BatchOfPrices applied to    *)
(*            batches drawn from a bounded universe.                       *)
(***************************************************************************)
EXTENDS Integers, Sequences, FiniteSets, TLC

\* ---- bounds ------------------------------------------------------------
MaxSlots == 2
MaxValue == 2
MaxStart == 1

Values == 1..MaxValue

\* ---- enumerations ------------------------------------------------------
\* NordPoolStatus, model.py
NordPoolStatus == [official |-> "O", provisional |-> "P"]

\* PriceOrigin plus the "none" tag of a batch that was never obtained
PriceOrigin == {"nordpool_official", "nordpool_provisional", "generated", "none"}

\* authority ordering official > provisional > generated > none
Authority(origin) ==
    CASE origin = "nordpool_official"    -> 3
      [] origin = "nordpool_provisional" -> 2
      [] origin = "generated"            -> 1
      [] OTHER                           -> 0

\* price_expiry(): the expiry of official prices
price_expiry == <<"price_expiry">>

\* provisional_price_expiry(time(h, m)): the fixed local cutoff
provisional_price_expiry(h, m) == <<"provisional_price_expiry", h, m>>

\* ---- Interval model ----------------------------------------------------
Min(x, y) == IF x <= y THEN x ELSE y
Max(x, y) == IF x >= y THEN x ELSE y

\* Interval (model.py) with its price
PriceInterval(s, v) == [start |-> s, end |-> s + 1, value |-> v]

\* BatchOfPrices(intervals, ts_from, ts_to, ...) tagged with its authority
BatchOfPrices(ivs, from, to, origin) ==
    [intervals |-> ivs, ts_from |-> from, ts_to |-> to, origin |-> origin]

\* the sorted interval sequence of a slot assignment f (0 = slot absent)
RECURSIVE IntervalsOf(_, _, _)
IntervalsOf(f, s, hi) ==
    IF s >= hi THEN <<>>
    ELSE (IF f[s] = 0 THEN <<>> ELSE <<PriceInterval(s, f[s])>>)
         \o IntervalsOf(f, s + 1, hi)

\* every sorted, non-overlapping interval sequence inside [lo, hi)
IntervalSeqs(lo, hi) ==
    {IntervalsOf(f, lo, hi) : f \in [lo..(hi - 1) -> {0} \cup Values]}

\* every full-coverage interval sequence of [lo, hi)
FullIntervalSeqs(lo, hi) ==
    {IntervalsOf(f, lo, hi) : f \in [lo..(hi - 1) -> Values]}

interval_count(b) == Len(b.intervals)

SlotsOf(b) == {b.intervals[i].start : i \in DOMAIN b.intervals}

HasSlot(b, s) == \E i \in DOMAIN b.intervals : b.intervals[i].start = s

ValueAt(b, s) ==
    LET i == CHOOSE j \in DOMAIN b.intervals : b.intervals[j].start = s
    IN  b.intervals[i].value

\* number of hourly slots of the requested window
ExpectedCount(b) == IF b.ts_to > b.ts_from THEN b.ts_to - b.ts_from ELSE 0

\* the coverage predicate looking only at the end of the last interval
has_correct_price_countLastOnly(b) ==
    /\ interval_count(b) > 0
    /\ b.intervals[Len(b.intervals)].end = b.ts_to

\* BatchOfPrices.has_correct_price_count
has_correct_price_count(b) ==
    /\ interval_count(b) = ExpectedCount(b)
    /\ interval_count(b) > 0
    /\ b.intervals[Len(b.intervals)].end = b.ts_to

\* is iv present, same slot and same value, in batch b
InBatch(iv, b) ==
    \E j \in DOMAIN b.intervals :
        /\ b.intervals[j].start = iv.start
        /\ b.intervals[j].end = iv.end
        /\ b.intervals[j].value = iv.value

\* newer - older losing the interval that starts the overlap
diffStrictStart(newer, older) ==
    LET lo == Max(newer.ts_from, older.ts_from)
        hi == Min(newer.ts_to, older.ts_to)
        Keep(iv) == /\ iv.start > lo
                    /\ iv.end <= hi
                    /\ ~InBatch(iv, older)
    IN  BatchOfPrices(SelectSeq(newer.intervals, Keep), lo, Max(lo, hi), newer.origin)

\* BatchOfPrices.__sub__ : newer - older
diff(newer, older) ==
    LET lo == Max(newer.ts_from, older.ts_from)
        hi == Min(newer.ts_to, older.ts_to)
        Keep(iv) == /\ iv.start >= lo
                    /\ iv.end <= hi
                    /\ ~InBatch(iv, older)
    IN  BatchOfPrices(SelectSeq(newer.intervals, Keep), lo, Max(lo, hi), newer.origin)

\* the merged slot with the first argument winning whatever the authority
MergedSlotFirstWins(a, b, s) ==
    IF HasSlot(a, s) THEN <<PriceInterval(s, ValueAt(a, s))>>
    ELSE IF HasSlot(b, s) THEN <<PriceInterval(s, ValueAt(b, s))>>
    ELSE <<>>

\* the interval merge(a, b) holds at slot s, as a sequence of length <= 1
MergedSlot(a, b, s) ==
    IF HasSlot(a, s) /\ HasSlot(b, s)
    THEN (IF Authority(b.origin) > Authority(a.origin)
          THEN <<PriceInterval(s, ValueAt(b, s))>>
          ELSE <<PriceInterval(s, ValueAt(a, s))>>)
    ELSE IF HasSlot(a, s) THEN <<PriceInterval(s, ValueAt(a, s))>>
    ELSE IF HasSlot(b, s) THEN <<PriceInterval(s, ValueAt(b, s))>>
    ELSE <<>>

\* the merged intervals as those of a followed by the slots only b holds
MergedIntervalsAppend(a, b, s, hi) ==
    LET onlyB(iv) == ~HasSlot(a, iv.start)
    IN  a.intervals \o SelectSeq(b.intervals, onlyB)

RECURSIVE MergedIntervals(_, _, _, _)
MergedIntervals(a, b, s, hi) ==
    IF s >= hi THEN <<>>
    ELSE MergedSlot(a, b, s) \o MergedIntervals(a, b, s + 1, hi)

\* the higher of the authorities of the batches merge actually used
MergedOrigin(a, b) ==
    LET usedA == \E s \in SlotsOf(a) :
                    ~(HasSlot(b, s) /\ Authority(b.origin) > Authority(a.origin))
        usedB == \E s \in SlotsOf(b) :
                    ~(HasSlot(a, s) /\ Authority(a.origin) >= Authority(b.origin))
    IN  IF usedA /\ (~usedB \/ Authority(a.origin) >= Authority(b.origin)) THEN a.origin
        ELSE IF usedB THEN b.origin
        ELSE "none"

\* BatchOfPrices.merge : a.merge(b)
merge(a, b) ==
    LET lo == Min(a.ts_from, b.ts_from)
        hi == Max(a.ts_to, b.ts_to)
    IN  BatchOfPrices(MergedIntervals(a, b, lo, hi), lo, hi, MergedOrigin(a, b))

\* ---- Market client ------------------------------------------------------
\* what the provider (and the transport to it) does to one price request
ReplyKinds ==
    {"ok", "token_error", "transport_error", "bad_status", "no_content",
     "undecodable", "unparsable", "empty_list"}

FailureKinds == ReplyKinds \ {"ok"}

\* the provider's answers to a request for [lo, hi)
Replies(lo, hi) ==
    {[kind |-> "ok", values |-> v] : v \in IntervalSeqs(lo, hi)}
    \cup {[kind |-> k, values |-> <<>>] : k \in FailureKinds}

\* NordPoolClient.get_prices: the exception it raises ("" = it returns).
\*   token_error      line 74: the token request or its decoding fails inside
\*                    get_nordpool_token, which converts nothing
\*   transport_error  line 97: the price request itself fails, outside any try
\*   bad_status       lines 98-102: status outside 200..299
\*   no_content       lines 98-102: status 204
\*   undecodable      lines 103-110: get_response_data raises RESTClientException
\*   unparsable       line 112: parse_obj_as rejects the decoded body
\*   empty_list       line 112: unpacking "prices, *_" of an empty list
get_prices_raises(reply) ==
    CASE reply.kind = "token_error"     -> "RESTClientException"
      [] reply.kind = "transport_error" -> "RESTClientException"
      [] reply.kind = "bad_status"      -> "NordPoolException"
      [] reply.kind = "no_content"      -> "NordPoolException"
      [] reply.kind = "undecodable"     -> "NordPoolException"
      [] reply.kind = "unparsable"      -> "ValidationError"
      [] reply.kind = "empty_list"      -> "ValueError"
      [] OTHER                          -> ""

\* the origin tag of a batch fetched with the given status
OriginOfStatus(status) ==
    IF status = NordPoolStatus.official THEN "nordpool_official"
    ELSE "nordpool_provisional"

\* BatchOfPrices.from_nordpool_prices for a request of [lo, hi): the batch
\* holds the returned intervals and the requested window
from_nordpool_prices(reply, lo, hi, status) ==
    BatchOfPrices(reply.values, lo, hi, OriginOfStatus(status))

\* get_batch_of_prices_for_region without its except clause
get_batch_of_prices_for_regionNoExcept(lo, hi, status, reply) ==
    LET exc == get_prices_raises(reply)
    IN  IF exc # ""
        THEN [raised |-> exc, bop |-> BatchOfPrices(<<>>, lo, hi, "none")]
        ELSE [raised |-> "", bop |-> from_nordpool_prices(reply, lo, hi, status)]

\* get_batch_of_prices_for_region: the exception that leaves it and the batch
get_batch_of_prices_for_region(lo, hi, status, reply) ==
    LET exc == get_prices_raises(reply)
    IN  IF exc = "NordPoolException"
        THEN [raised |-> "", bop |-> BatchOfPrices(<<>>, lo, hi, "none")]
        ELSE IF exc # ""
        THEN [raised |-> exc, bop |-> BatchOfPrices(<<>>, lo, hi, "none")]
        ELSE [raised |-> "", bop |-> from_nordpool_prices(reply, lo, hi, status)]

\* ---- state -------------------------------------------------------------
VARIABLES
    pc,               \* position of get_batch_of_prices
    start_utc,        \* requested window [start_utc, end_utc)
    end_utc,
    official_bop,     \* locals of get_batch_of_prices
    provisional_bop,
    merged_bop,
    abomination_bop,
    events,           \* what emit_event has published, in order
    fetches,          \* the price requests made so far, in order
    generated,        \* what generate_batch_of_prices returned, call by call
    raised,           \* the exception that ended the invocation, "" if none
    alg_a,            \* operands and result of a reconciliation operation
    alg_b,
    alg_op,
    alg_res,
    alg_cov,          \* has_correct_price_count of alg_a and of alg_res
    wrapped,          \* the function the retry wrapper decorates
    attempt,          \* number of the running attempt of the retry wrapper
    earlier,          \* what the earlier attempts of the invocation published
    unofficial_bop,   \* local of _update_unofficial_prices
    tok_store,        \* the shared token store: <<>> or <<credential>>
    tok_now,          \* utcnow, in minutes
    tok_calls,        \* the callers of renew_nordpool_token_if_needed
    tok_issued,       \* number of credentials the provider has issued
    tf_now,           \* local "now" of get_timeframe_for_region, in hours
    tf_region,        \* the region's timezone rule
    tf_res            \* what get_timeframe_for_region returned

pipeVars == <<pc, start_utc, end_utc, official_bop, provisional_bop, merged_bop,
              abomination_bop, events, fetches, generated, raised>>
algVars == <<alg_a, alg_b, alg_op, alg_res, alg_cov>>
retryVars == <<wrapped, attempt, earlier>>
tokVars == <<tok_store, tok_now, tok_calls, tok_issued>>
tfVars == <<tf_now, tf_region, tf_res>>
vars == <<pc, start_utc, end_utc, official_bop, provisional_bop, merged_bop,
          abomination_bop, events, fetches, generated, raised,
          alg_a, alg_b, alg_op, alg_res, alg_cov, wrapped, attempt, earlier,
          unofficial_bop,
          tok_store, tok_now, tok_calls, tok_issued, tf_now, tf_region, tf_res>>

\* the variables that get_batch_of_prices and the reconciliation operations
\* do not touch
restVars == <<retryVars, unofficial_bop, tokVars, tfVars>>

\* value of a local that has not been assigned yet
Unset == BatchOfPrices(<<>>, 0, 0, "unset")

\* Prices(prices=..., origin=..., expiry=...)
Prices(bop, origin, expiry) == [prices |-> bop, origin |-> origin, expiry |-> expiry]

\* the terminal check of get_batch_of_prices
IsTerminal(bop, end) == has_correct_price_count(bop) /\ bop.ts_to = end

\* nothing published by earlier attempts
NoEarlier ==
    [official |-> 0, provisional |-> 0, generated |-> 0, slots |-> {}, causes |-> <<>>]

\* the reconciliation operands are not in use
AlgIdle ==
    /\ alg_a = Unset
    /\ alg_b = Unset
    /\ alg_op = "idle"
    /\ alg_res = Unset
    /\ alg_cov = <<>>

\* no wrapper, first attempt, nothing published before
RetryIdle == wrapped = "none" /\ attempt = 1 /\ earlier = NoEarlier

\* the token store is not in use
TokIdle ==
    /\ tok_store = <<>>
    /\ tok_now = 0
    /\ tok_calls = <<>>
    /\ tok_issued = 0

\* the timeframe calculator is not in use
TfIdle == tf_now = 0 /\ tf_region = 0 /\ tf_res = <<>>

Init ==
    /\ pc = "fetch_official"
    /\ start_utc \in 0..MaxStart
    /\ end_utc \in (start_utc + 1)..(start_utc + MaxSlots)
    /\ official_bop = Unset
    /\ provisional_bop = Unset
    /\ merged_bop = Unset
    /\ abomination_bop = Unset
    /\ events = <<>>
    /\ fetches = <<>>
    /\ generated = <<>>
    /\ raised = ""
    /\ AlgIdle
    /\ RetryIdle
    /\ unofficial_bop = Unset
    /\ TokIdle
    /\ TfIdle

\* prices.py 79: official_bop = await get_batch_of_prices_for_region(.., official)
FetchOfficial ==
    /\ pc = "fetch_official"
    /\ \E reply \in Replies(start_utc, end_utc) :
        LET r == get_batch_of_prices_for_region(start_utc, end_utc,
                                                NordPoolStatus.official, reply)
        IN  /\ fetches' = Append(fetches, [status |-> NordPoolStatus.official,
                                           start |-> start_utc, end |-> end_utc,
                                           kind |-> reply.kind])
            /\ IF r.raised # ""
               THEN /\ raised' = r.raised
                    /\ pc' = "raised"
                    /\ UNCHANGED official_bop
               ELSE /\ official_bop' = r.bop
                    /\ pc' = "emit_official"
                    /\ UNCHANGED raised
    /\ UNCHANGED <<start_utc, end_utc, provisional_bop, merged_bop, abomination_bop,
                   events, generated>>
    /\ UNCHANGED <<algVars, restVars>>

\* prices.py 81-83: emit the official event
EmitOfficial ==
    /\ pc = "emit_official"
    /\ events' = Append(events, Prices(official_bop, "nordpool_official", price_expiry))
    /\ pc' = "check_official"
    /\ UNCHANGED <<start_utc, end_utc, official_bop, provisional_bop, merged_bop,
                   abomination_bop, fetches, generated, raised>>
    /\ UNCHANGED <<algVars, restVars>>

\* the official terminal check with "or" in place of "and"
CheckOfficialOr ==
    /\ pc = "check_official"
    /\ pc' = IF has_correct_price_count(official_bop) \/ official_bop.ts_to = end_utc
             THEN "done" ELSE "fetch_provisional"
    /\ UNCHANGED <<start_utc, end_utc, official_bop, provisional_bop, merged_bop,
                   abomination_bop, events, fetches, generated, raised>>
    /\ UNCHANGED <<algVars, restVars>>

\* prices.py 85-86: terminal check on the official batch
CheckOfficial ==
    /\ pc = "check_official"
    /\ pc' = IF IsTerminal(official_bop, end_utc) THEN "done" ELSE "fetch_provisional"
    /\ UNCHANGED <<start_utc, end_utc, official_bop, provisional_bop, merged_bop,
                   abomination_bop, events, fetches, generated, raised>>
    /\ UNCHANGED <<algVars, restVars>>

\* prices.py 97-99: provisional_bop = await get_batch_of_prices_for_region(.., provisional)
FetchProvisional ==
    /\ pc = "fetch_provisional"
    /\ \E reply \in Replies(start_utc, end_utc) :
        LET r == get_batch_of_prices_for_region(start_utc, end_utc,
                                                NordPoolStatus.provisional, reply)
        IN  /\ fetches' = Append(fetches, [status |-> NordPoolStatus.provisional,
                                           start |-> start_utc, end |-> end_utc,
                                           kind |-> reply.kind])
            /\ IF r.raised # ""
               THEN /\ raised' = r.raised
                    /\ pc' = "raised"
                    /\ UNCHANGED provisional_bop
               ELSE /\ provisional_bop' = r.bop
                    /\ pc' = "emit_provisional"
                    /\ UNCHANGED raised
    /\ UNCHANGED <<start_utc, end_utc, official_bop, merged_bop, abomination_bop,
                   events, generated>>
    /\ UNCHANGED <<algVars, restVars>>

\* the provisional event carrying the whole provisional batch
EmitProvisionalWhole ==
    /\ pc = "emit_provisional"
    /\ events' = Append(events, Prices(provisional_bop, "nordpool_provisional",
                                       provisional_price_expiry(11, 15)))
    /\ pc' = "check_merged"
    /\ UNCHANGED <<start_utc, end_utc, official_bop, provisional_bop, merged_bop,
                   abomination_bop, fetches, generated, raised>>
    /\ UNCHANGED <<algVars, restVars>>

\* prices.py 101-108: publish provisional_bop - official_bop
EmitProvisional ==
    /\ pc = "emit_provisional"
    /\ events' = Append(events, Prices(diff(provisional_bop, official_bop),
                                       "nordpool_provisional",
                                       provisional_price_expiry(11, 15)))
    /\ pc' = "check_merged"
    /\ UNCHANGED <<start_utc, end_utc, official_bop, provisional_bop, merged_bop,
                   abomination_bop, fetches, generated, raised>>
    /\ UNCHANGED <<algVars, restVars>>

\* the second terminal check looping back to the official stage
CheckMergedRetry ==
    /\ pc = "check_merged"
    /\ merged_bop' = merge(official_bop, provisional_bop)
    /\ pc' = IF IsTerminal(merged_bop', end_utc) THEN "done" ELSE "fetch_official"
    /\ UNCHANGED <<start_utc, end_utc, official_bop, provisional_bop,
                   abomination_bop, events, fetches, generated, raised>>
    /\ UNCHANGED <<algVars, restVars>>

\* the second terminal check testing the official batch again
CheckMergedOfficial ==
    /\ pc = "check_merged"
    /\ merged_bop' = merge(official_bop, provisional_bop)
    /\ pc' = IF IsTerminal(official_bop, end_utc) THEN "done" ELSE "generate"
    /\ UNCHANGED <<start_utc, end_utc, official_bop, provisional_bop,
                   abomination_bop, events, fetches, generated, raised>>
    /\ UNCHANGED <<algVars, restVars>>

\* prices.py 110-113: merge and terminal check on the merged batch
CheckMerged ==
    /\ pc = "check_merged"
    /\ merged_bop' = merge(official_bop, provisional_bop)
    /\ pc' = IF IsTerminal(merged_bop', end_utc) THEN "done" ELSE "generate"
    /\ UNCHANGED <<start_utc, end_utc, official_bop, provisional_bop,
                   abomination_bop, events, fetches, generated, raised>>
    /\ UNCHANGED <<algVars, restVars>>

\* generate_batch_of_prices: the fallback batches it can return for [lo, hi)
generate_batch_of_prices(lo, hi) ==
    {BatchOfPrices(v, lo, hi, "generated") : v \in FullIntervalSeqs(lo, hi)}

\* the backfill stage without the subtraction of the merged batch
GenerateNoDiff ==
    /\ pc = "generate"
    /\ \E g \in generate_batch_of_prices(start_utc, end_utc) :
        /\ generated' = Append(generated, g)
        /\ abomination_bop' = g
    /\ pc' = "emit_generated"
    /\ UNCHANGED <<start_utc, end_utc, official_bop, provisional_bop, merged_bop,
                   events, fetches, raised>>
    /\ UNCHANGED <<algVars, restVars>>

\* prices.py 124-125: generate the fallback batch and subtract the merged one
Generate ==
    /\ pc = "generate"
    /\ \E g \in generate_batch_of_prices(start_utc, end_utc) :
        /\ generated' = Append(generated, g)
        /\ abomination_bop' = diff(g, merged_bop)
    /\ pc' = "emit_generated"
    /\ UNCHANGED <<start_utc, end_utc, official_bop, provisional_bop, merged_bop,
                   events, fetches, raised>>
    /\ UNCHANGED <<algVars, restVars>>

\* prices.py 127-133: publish the generated delta
EmitGenerated ==
    /\ pc = "emit_generated"
    /\ events' = Append(events, Prices(abomination_bop, "generated",
                                       provisional_price_expiry(11, 15)))
    /\ pc' = "done"
    /\ UNCHANGED <<start_utc, end_utc, official_bop, provisional_bop, merged_bop,
                   abomination_bop, fetches, generated, raised>>
    /\ UNCHANGED <<algVars, restVars>>

Next ==
    \/ FetchOfficial
    \/ EmitOfficial
    \/ CheckOfficial
    \/ FetchProvisional
    \/ EmitProvisional
    \/ CheckMerged
    \/ Generate
    \/ EmitGenerated

Spec == Init /\ [][Next]_vars

\* the event loop resumes the coroutine whenever the awaited collaborator returns
FairSpec == Spec /\ WF_vars(Next)

\* the invocation has returned or raised
Terminated == pc \in {"done", "raised"}

\* ---- properties of get_batch_of_prices ----------------------------------
\* the batch a failed stage degrades to
EmptyBatch == BatchOfPrices(<<>>, start_utc, end_utc, "none")

\* the replies that NordPoolClient.get_prices turns into NordPoolException
ProviderErrors == {"bad_status", "no_content", "undecodable"}

\* number of events published with the given origin
EventCount(origin) == Cardinality({i \in DOMAIN events : events[i].origin = origin})

\* the batch the i-th fetch stage obtained
StageBatch(i) == IF i = 1 THEN official_bop ELSE provisional_bop

\* the official stage has handed its batch to the orchestrator
OfficialObtained == pc \notin {"fetch_official"} /\ ~(pc = "raised" /\ Len(fetches) = 1)

\* the official terminal check has been decided
OfficialChecked == OfficialObtained /\ pc \notin {"emit_official", "check_official"}

\* the merged batch has been computed and checked
MergedChecked == pc \in {"generate", "emit_generated"} \/ (pc = "done" /\ Len(events) >= 2)

\* C1: whenever a price fetch of the official or the provisional stage fails,
\* for whatever reason, no exception leaves the stage and the stage's batch is
\* the empty batch over [start_utc, end_utc) with origin none.
C1_FailureDegradesToEmptyBatch ==
    \A i \in DOMAIN fetches :
        fetches[i].kind # "ok" =>
            /\ raised = ""
            /\ pc # "raised"
            /\ StageBatch(i) = EmptyBatch

\* C2: every invocation publishes the official event before the terminal check,
\* and once the invocation has ended every stage that ran (official always,
\* provisional when its fetch was requested, backfill when the generator was
\* called) has published exactly one event with its origin.
C2_EveryStagePublishes ==
    /\ pc = "check_official" => EventCount("nordpool_official") = 1
    /\ Terminated =>
        /\ EventCount("nordpool_official") = 1
        /\ events[1] = Prices(official_bop, "nordpool_official", price_expiry)
        /\ Len(fetches) = 2 => EventCount("nordpool_provisional") = 1
        /\ Len(generated) = 1 => EventCount("generated") = 1

\* C3: once the official terminal check is decided: if the official batch has
\* the correct price count and ends at end_utc the invocation is over with one
\* fetch, no generation and exactly the official event; otherwise the
\* provisional fetch is the next step or has been requested.
C3_OfficialTerminalCheck ==
    OfficialChecked =>
        IF has_correct_price_count(official_bop) /\ official_bop.ts_to = end_utc
        THEN /\ pc = "done"
             /\ Len(fetches) = 1
             /\ generated = <<>>
             /\ Len(events) = 1
             /\ events[1].origin = "nordpool_official"
        ELSE \/ pc = "fetch_provisional" /\ Len(fetches) = 1
             \/ /\ Len(fetches) = 2
                /\ fetches[2].status = NordPoolStatus.provisional

\* the official batch was complete and the invocation stopped after one event
C3_Witness ==
    /\ pc = "done"
    /\ Len(events) = 1
    /\ interval_count(official_bop) = end_utc - start_utc
    /\ end_utc - start_utc = MaxSlots

\* C4: the provisional event carries diff(provisional, official): exactly the
\* provisional intervals that the official batch of the same invocation does
\* not hold with the same slot and value, with origin nordpool_provisional and
\* the 11:15 provisional expiry, which is not the official expiry.
C4_ProvisionalEventIsDiff ==
    Len(events) >= 2 =>
        LET ev == events[2]
            fresh(iv) == ~\E j \in DOMAIN official_bop.intervals :
                            /\ official_bop.intervals[j].start = iv.start
                            /\ official_bop.intervals[j].value = iv.value
        IN  /\ ev.origin = "nordpool_provisional"
            /\ ev.expiry = provisional_price_expiry(11, 15)
            /\ ev.expiry # price_expiry
            /\ ev.prices = diff(provisional_bop, official_bop)
            /\ ev.prices.intervals = SelectSeq(provisional_bop.intervals, fresh)
            /\ \A s \in SlotsOf(ev.prices) \cap SlotsOf(official_bop) :
                    ValueAt(ev.prices, s) # ValueAt(official_bop, s)

\* a provisional event that leaves out a slot the official event announced
\* with the same value and keeps a slot that is new or changed
C4_Witness ==
    /\ Len(events) >= 2
    /\ events[2].prices.intervals # <<>>
    /\ \E s \in SlotsOf(official_bop) \cap SlotsOf(provisional_bop) :
            /\ ValueAt(official_bop, s) = ValueAt(provisional_bop, s)
            /\ ~HasSlot(events[2].prices, s)

\* C5: the backfill stage runs if and only if merge(official, provisional)
\* fails the terminal check; the generated event then carries
\* diff(generated, merged), holds no slot that merged has with the same value,
\* and has the provisional-style expiry.
C5_BackfillIffMergedIncomplete ==
    LET mergedTerminal == /\ has_correct_price_count(merged_bop)
                          /\ merged_bop.ts_to = end_utc
    IN  /\ MergedChecked =>
            /\ merged_bop = merge(official_bop, provisional_bop)
            /\ IF mergedTerminal
               THEN generated = <<>> /\ pc = "done" /\ Len(events) = 2
               ELSE pc = "generate" \/ Len(generated) = 1
        /\ generated # <<>> => MergedChecked /\ ~mergedTerminal /\ Len(generated) = 1
        /\ Len(events) = 3 =>
            /\ events[3].origin = "generated"
            /\ events[3].expiry = provisional_price_expiry(11, 15)
            /\ events[3].prices = diff(generated[1], merged_bop)
            /\ \A s \in SlotsOf(events[3].prices) :
                    HasSlot(merged_bop, s) =>
                        ValueAt(merged_bop, s) # ValueAt(events[3].prices, s)

\* a generated event from which a slot already held by merged was removed
C5_Witness ==
    /\ Len(events) = 3
    /\ merged_bop.intervals # <<>>
    /\ events[3].prices.intervals # <<>>
    /\ interval_count(events[3].prices) < interval_count(generated[1])

\* position of get_batch_of_prices in program order
Rank(p) ==
    CASE p = "fetch_official"    -> 1
      [] p = "emit_official"     -> 2
      [] p = "check_official"    -> 3
      [] p = "fetch_provisional" -> 4
      [] p = "emit_provisional"  -> 5
      [] p = "check_merged"      -> 6
      [] p = "generate"          -> 7
      [] p = "emit_generated"    -> 8
      [] OTHER                   -> 9

\* s is an initial segment of t
IsPrefix(s, t) == Len(s) <= Len(t) /\ \A i \in DOMAIN s : s[i] = t[i]

\* stages and events occur once each and in the fixed order
C6_Order ==
    /\ IsPrefix([i \in DOMAIN fetches |-> fetches[i].status],
                <<NordPoolStatus.official, NordPoolStatus.provisional>>)
    /\ IsPrefix([i \in DOMAIN events |-> events[i].origin],
                <<"nordpool_official", "nordpool_provisional", "generated">>)
    /\ Len(generated) <= 1
    /\ Len(fetches) = 2 => Len(events) >= 1
    /\ Len(generated) = 1 => Len(events) >= 2

\* C6: one invocation is sequential: fetches are official then provisional,
\* events are official, provisional, generated, each at most once; a stage
\* starts only after the previous stage's event; every step moves forward in
\* program order; and the invocation ends, after at most two fetches, one
\* generation and three events.
C6_StrictlySequential ==
    /\ []C6_Order
    /\ [][Rank(pc') > Rank(pc)]_vars
    /\ <>Terminated

\* an invocation that ran all three stages
C6_Witness ==
    /\ pc = "done"
    /\ Len(fetches) = 2
    /\ Len(generated) = 1
    /\ Len(events) = 3

\* the official batch holds exactly the first k slots of the window
IsFirstSlots(b, k) == SlotsOf(b) = start_utc..(start_utc + k - 1)

\* C7: when the official fetch returns only the first k < N slots of an N-slot
\* window and the provisional fetch returns all N slots, equal to the official
\* ones where both have a slot, the provisional event holds exactly the N - k
\* missing slots, the merged batch has N slots ending at end_utc, no backfill
\* runs and exactly two events are emitted.
C7_ProvisionalCompletesWindow ==
    LET N == end_utc - start_utc
    IN  \A k \in 0..(N - 1) :
            ( /\ MergedChecked
              /\ fetches[1].kind = "ok"
              /\ fetches[2].kind = "ok"
              /\ IsFirstSlots(official_bop, k)
              /\ SlotsOf(provisional_bop) = start_utc..(end_utc - 1)
              /\ \A s \in SlotsOf(official_bop) :
                    ValueAt(official_bop, s) = ValueAt(provisional_bop, s) )
            => /\ SlotsOf(events[2].prices) = (start_utc + k)..(end_utc - 1)
               /\ interval_count(events[2].prices) = N - k
               /\ \A s \in SlotsOf(events[2].prices) :
                     ValueAt(events[2].prices, s) = ValueAt(provisional_bop, s)
               /\ interval_count(merged_bop) = N
               /\ merged_bop.intervals[N].end = end_utc
               /\ has_correct_price_count(merged_bop) /\ merged_bop.ts_to = end_utc
               /\ generated = <<>>
               /\ pc = "done"
               /\ Len(events) = 2

\* the scenario with a partial, non-empty official batch
C7_Witness ==
    /\ pc = "done"
    /\ Len(events) = 2
    /\ fetches[1].kind = "ok"
    /\ fetches[2].kind = "ok"
    /\ end_utc - start_utc = MaxSlots
    /\ IsFirstSlots(official_bop, MaxSlots - 1)
    /\ SlotsOf(provisional_bop) = start_utc..(end_utc - 1)
    /\ \A s \in SlotsOf(official_bop) :
            ValueAt(official_bop, s) = ValueAt(provisional_bop, s)
    /\ interval_count(events[2].prices) = 1

BatchesOfWindow(lo, hi) ==
    {BatchOfPrices(v, lo, hi, o) : v \in IntervalSeqs(lo, hi), o \in PriceOrigin}

\* every batch with a window inside [0, MaxSlots]
AllBatches ==
    UNION {UNION {BatchesOfWindow(lo, hi) : hi \in lo..MaxSlots} : lo \in 0..MaxSlots}

AlgInit ==
    /\ pc = "alg"
    /\ start_utc = 0
    /\ end_utc = 0
    /\ official_bop = Unset
    /\ provisional_bop = Unset
    /\ merged_bop = Unset
    /\ abomination_bop = Unset
    /\ events = <<>>
    /\ fetches = <<>>
    /\ generated = <<>>
    /\ raised = ""
    /\ alg_a \in AllBatches
    /\ alg_b \in AllBatches
    /\ alg_op = "idle"
    /\ alg_res = Unset
    /\ alg_cov = <<>>
    /\ RetryIdle
    /\ unofficial_bop = Unset
    /\ TokIdle
    /\ TfIdle

\* alg_a - alg_b
ApplyDiff ==
    /\ alg_op = "idle"
    /\ alg_res' = diff(alg_a, alg_b)
    /\ alg_op' = "diff"
    /\ UNCHANGED <<alg_a, alg_b, alg_cov>>
    /\ UNCHANGED <<pipeVars, restVars>>

\* alg_a.merge(alg_b)
ApplyMerge ==
    /\ alg_op = "idle"
    /\ alg_res' = merge(alg_a, alg_b)
    /\ alg_op' = "merge"
    /\ UNCHANGED <<alg_a, alg_b, alg_cov>>
    /\ UNCHANGED <<pipeVars, restVars>>

AlgNext ==
    \/ ApplyDiff
    \/ ApplyMerge

AlgSpec == AlgInit /\ [][AlgNext]_vars

\* the slots both operands hold with different values
Disputed == {s \in SlotsOf(alg_a) \cap SlotsOf(alg_b) : ValueAt(alg_a, s) # ValueAt(alg_b, s)}

\* C9: on every slot that an official and a provisional batch both hold with
\* different values, merge yields the official value whichever of the two is
\* the first argument; more generally the higher authority wins, and the first
\* argument wins only when the two authorities are equal.
C9_MergeAuthority ==
    alg_op = "merge" =>
        \A s \in Disputed :
            /\ HasSlot(alg_res, s)
            /\ (alg_a.origin = "nordpool_official" /\ alg_b.origin = "nordpool_provisional")
                    => ValueAt(alg_res, s) = ValueAt(alg_a, s)
            /\ (alg_a.origin = "nordpool_provisional" /\ alg_b.origin = "nordpool_official")
                    => ValueAt(alg_res, s) = ValueAt(alg_b, s)
            /\ Authority(alg_a.origin) > Authority(alg_b.origin)
                    => ValueAt(alg_res, s) = ValueAt(alg_a, s)
            /\ Authority(alg_a.origin) < Authority(alg_b.origin)
                    => ValueAt(alg_res, s) = ValueAt(alg_b, s)
            /\ Authority(alg_a.origin) = Authority(alg_b.origin)
                    => ValueAt(alg_res, s) = ValueAt(alg_a, s)

\* merge(P, O) with a disputed slot
C9_Witness ==
    /\ alg_op = "merge"
    /\ alg_a.origin = "nordpool_provisional"
    /\ alg_b.origin = "nordpool_official"
    /\ Disputed # {}
    /\ \A s \in Disputed : ValueAt(alg_res, s) = ValueAt(alg_b, s)

\* the intervals of b that lie inside the overlap of the windows of b and c
RestrictedToOverlap(b, c) ==
    LET inside(iv) == /\ iv.start >= Max(b.ts_from, c.ts_from)
                      /\ iv.end <= Min(b.ts_to, c.ts_to)
    IN  SelectSeq(b.intervals, inside)

\* C10: diff(b, b) is empty; diff(b, empty) is b restricted to the overlap of
\* the two windows, and is b itself when the windows are equal; diff(empty, c)
\* is empty.
C10_DiffIdentity ==
    alg_op = "diff" =>
        /\ alg_a = alg_b => alg_res.intervals = <<>>
        /\ alg_b.intervals = <<>> =>
            /\ alg_res.intervals = RestrictedToOverlap(alg_a, alg_b)
            /\ (alg_a.ts_from = alg_b.ts_from /\ alg_a.ts_to = alg_b.ts_to)
                    => alg_res = alg_a
        /\ alg_a.intervals = <<>> => alg_res.intervals = <<>>

\* diff of a non-empty batch against the empty batch of the same window
C10_Witness ==
    /\ alg_op = "diff"
    /\ alg_b.intervals = <<>>
    /\ alg_a.intervals # <<>>
    /\ alg_a.ts_from = alg_b.ts_from
    /\ alg_a.ts_to = alg_b.ts_to
    /\ alg_res = alg_a

\* merge neither duplicates nor drops slots: the slots of the result are
\* those of a together with those of b, each once, sorted, without overlap,
\* so the result has at least as many intervals as a and as b
MergeKeepsSlots ==
    LET r == alg_res.intervals
    IN  /\ SlotsOf(alg_res) = SlotsOf(alg_a) \cup SlotsOf(alg_b)
        /\ Len(r) = Cardinality(SlotsOf(alg_res))
        /\ \A i \in 1..(Len(r) - 1) : r[i].end <= r[i + 1].start
        /\ \A i \in DOMAIN r : r[i].start < r[i].end
        /\ interval_count(alg_res) >= Max(interval_count(alg_a), interval_count(alg_b))

\* the window of x lies inside the window of y
WindowWithin(x, y) == x.ts_from >= y.ts_from /\ x.ts_to <= y.ts_to

C11_InterleavedMerge ==
    /\ alg_op = "merge"
    /\ SlotsOf(alg_a) \cap SlotsOf(alg_b) = {}
    /\ \E s \in SlotsOf(alg_a) : \E t \in SlotsOf(alg_b) : t < s
    /\ interval_count(alg_res) = interval_count(alg_a) + interval_count(alg_b)

CovSlots == 3

\* b without its i-th interval
WithoutInterval(b, i) ==
    [b EXCEPT !.intervals = SubSeq(b.intervals, 1, i - 1)
                            \o SubSeq(b.intervals, i + 1, Len(b.intervals))]

CovInit ==
    /\ pc = "alg"
    /\ start_utc = 0
    /\ end_utc = 0
    /\ official_bop = Unset
    /\ provisional_bop = Unset
    /\ merged_bop = Unset
    /\ abomination_bop = Unset
    /\ events = <<>>
    /\ fetches = <<>>
    /\ generated = <<>>
    /\ raised = ""
    /\ alg_a \in UNION {UNION {BatchesOfWindow(lo, hi) : hi \in lo..CovSlots} :
                        lo \in 0..CovSlots}
    /\ alg_b = Unset
    /\ alg_op = "idle"
    /\ alg_res = Unset
    /\ alg_cov = <<>>
    /\ RetryIdle
    /\ unofficial_bop = Unset
    /\ TokIdle
    /\ TfIdle

\* alg_a.has_correct_price_count
ApplyCoverage ==
    /\ alg_op = "idle"
    /\ alg_op' = "coverage"
    /\ alg_res' = alg_a
    /\ alg_cov' = <<0, has_correct_price_count(alg_a), has_correct_price_count(alg_a)>>
    /\ UNCHANGED <<alg_a, alg_b>>
    /\ UNCHANGED <<pipeVars, restVars>>

\* has_correct_price_count of alg_a and of alg_a with one interval removed
ApplyCoverageRemoved ==
    /\ alg_op = "idle"
    /\ \E i \in DOMAIN alg_a.intervals :
        /\ alg_res' = WithoutInterval(alg_a, i)
        /\ alg_cov' = <<i, has_correct_price_count(alg_a),
                        has_correct_price_count(alg_res')>>
    /\ alg_op' = "remove"
    /\ UNCHANGED <<alg_a, alg_b>>
    /\ UNCHANGED <<pipeVars, restVars>>

CovNext ==
    \/ ApplyCoverage
    \/ ApplyCoverageRemoved

CovSpec == CovInit /\ [][CovNext]_vars

\* every hourly slot of a non-empty window is present
FullCoverage(b) == b.ts_from < b.ts_to /\ SlotsOf(b) = b.ts_from..(b.ts_to - 1)

\* C12: a batch holding every hourly slot of its window [t, t + N) has the
\* correct price count; with any one interval removed (first, middle or last)
\* it has not; an empty batch over a non-empty window never has it.
C12_CoveragePredicate ==
    /\ (alg_op \in {"coverage", "remove"} /\ FullCoverage(alg_a)) => alg_cov[2] = TRUE
    /\ (alg_op = "remove" /\ FullCoverage(alg_a)) => alg_cov[3] = FALSE
    /\ (alg_op = "coverage" /\ alg_a.intervals = <<>> /\ alg_a.ts_from < alg_a.ts_to)
            => alg_cov[2] = FALSE

\* the middle interval removed from a full batch of three slots
C12_Witness ==
    /\ alg_op = "remove"
    /\ FullCoverage(alg_a)
    /\ interval_count(alg_a) = 3
    /\ alg_cov = <<2, TRUE, FALSE>>

\* ---- the errors of the market client ------------------------------------
\* C13: every failure of a price fetch (a network failure of the request, a
\* non-2xx or 204 response, a failed token request, a malformed or unparsable
\* body) leaves NordPoolClient.get_prices as NordPoolException and as no
\* other exception type.
C13_FailuresSurfaceAsNordPoolException ==
    \A i \in DOMAIN fetches :
        fetches[i].kind \in FailureKinds =>
            get_prices_raises([kind |-> fetches[i].kind, values |-> <<>>])
                = "NordPoolException"

\* ---- the retry wrapper of the two entry points --------------------------
\* stop_after_attempt(3)
MaxAttempts == 3

\* the two functions decorated with @retry
Wrapped == {"emit_prices_from_nordpool", "_update_unofficial_prices"}

\* what a collaborator outside the fetch stages can raise
CollaboratorErrors == {"NordPoolException", "OtherError"}

\* BatchOfPrices.from_db(start_utc, end_utc, origin_excluded = official): the
\* stored batches of the window, with gaps, of any other authority
from_db(lo, hi) ==
    {BatchOfPrices(v, lo, hi, o) :
        v \in IntervalSeqs(lo, hi), o \in {"nordpool_provisional", "generated"}}

\* BatchOfPrices.reduce_to_existing_intervals: the window collapses to the
\* envelope of the intervals; an empty batch stays as it is
reduce_to_existing_intervals(b) ==
    IF b.intervals = <<>> THEN b
    ELSE [b EXCEPT !.ts_from = b.intervals[1].start,
                   !.ts_to = b.intervals[Len(b.intervals)].end]

\* the stage of the running attempt that raised
FailedStage ==
    IF wrapped = "emit_prices_from_nordpool"
    THEN IF official_bop = Unset THEN "fetch_official"
         ELSE IF provisional_bop = Unset THEN "fetch_provisional"
         ELSE "generate"
    ELSE IF unofficial_bop = Unset THEN "from_db" ELSE "fetch_official"

\* the slots the official events of the running attempt hold
OfficialSlotsPublished ==
    UNION {SlotsOf(events[i].prices) :
            i \in {j \in DOMAIN events : events[j].origin = "nordpool_official"}}

\* what the attempts up to and including the running one have published
Folded ==
    [official |-> earlier.official + EventCount("nordpool_official"),
     provisional |-> earlier.provisional + EventCount("nordpool_provisional"),
     generated |-> earlier.generated + EventCount("generated"),
     slots |-> earlier.slots \cup OfficialSlotsPublished,
     causes |-> Append(earlier.causes, FailedStage)]

RetryInit ==
    /\ pc = "enter"
    /\ start_utc = 0
    /\ end_utc \in 1..MaxSlots
    /\ official_bop = Unset
    /\ provisional_bop = Unset
    /\ merged_bop = Unset
    /\ abomination_bop = Unset
    /\ events = <<>>
    /\ fetches = <<>>
    /\ generated = <<>>
    /\ raised = ""
    /\ AlgIdle
    /\ wrapped \in Wrapped
    /\ attempt = 1
    /\ earlier = NoEarlier
    /\ unofficial_bop = Unset
    /\ TokIdle
    /\ TfIdle

\* prices.py 157-161: a region outside the service returns at once
EnterEmit ==
    /\ pc = "enter"
    /\ wrapped = "emit_prices_from_nordpool"
    /\ \E is_in_nordpool_service \in BOOLEAN :
        pc' = IF is_in_nordpool_service THEN "fetch_official" ELSE "done"
    /\ UNCHANGED <<start_utc, end_utc, official_bop, provisional_bop, merged_bop,
                   abomination_bop, events, fetches, generated, raised>>
    /\ UNCHANGED <<algVars, restVars>>

\* prices.py 124: generate_batch_of_prices raises
GenerateRaises ==
    /\ pc = "generate"
    /\ wrapped = "emit_prices_from_nordpool"
    /\ \E exc \in CollaboratorErrors : raised' = exc
    /\ pc' = "raised"
    /\ UNCHANGED <<start_utc, end_utc, official_bop, provisional_bop, merged_bop,
                   abomination_bop, events, fetches, generated>>
    /\ UNCHANGED <<algVars, restVars>>

\* update_unofficial_prices.py 46-49: load the stored non-official batch and
\* reduce it to its intervals
UpdFromDb ==
    /\ pc = "enter"
    /\ wrapped = "_update_unofficial_prices"
    /\ \/ /\ \E exc \in CollaboratorErrors : raised' = exc
          /\ pc' = "raised"
          /\ UNCHANGED unofficial_bop
       \/ /\ \E stored \in from_db(start_utc, end_utc) :
                unofficial_bop' = reduce_to_existing_intervals(stored)
          /\ pc' = "upd_fetch"
          /\ UNCHANGED raised
    /\ UNCHANGED <<start_utc, end_utc, official_bop, provisional_bop, merged_bop,
                   abomination_bop, events, fetches, generated>>
    /\ UNCHANGED <<algVars, retryVars, tokVars, tfVars>>

\* the official fetch of the update path asking for the whole window
UpdFetchWholeWindow ==
    /\ pc = "upd_fetch"
    /\ IF unofficial_bop.intervals = <<>>
       THEN /\ pc' = "done"
            /\ UNCHANGED <<official_bop, fetches, raised>>
       ELSE \E reply \in Replies(start_utc, end_utc) :
            LET r == get_batch_of_prices_for_region(start_utc, end_utc,
                                                    NordPoolStatus.official, reply)
            IN  /\ fetches' = Append(fetches, [status |-> NordPoolStatus.official,
                                               start |-> start_utc, end |-> end_utc,
                                               kind |-> reply.kind])
                /\ IF r.raised # ""
                   THEN /\ raised' = r.raised
                        /\ pc' = "raised"
                        /\ UNCHANGED official_bop
                   ELSE /\ official_bop' = r.bop
                        /\ pc' = "upd_emit"
                        /\ UNCHANGED raised
    /\ UNCHANGED <<start_utc, end_utc, provisional_bop, merged_bop, abomination_bop,
                   events, generated>>
    /\ UNCHANGED <<algVars, restVars>>

\* update_unofficial_prices.py 50-56: if the reduced batch has intervals,
\* fetch the official prices of its envelope (the local bop is official_bop)
UpdFetch ==
    /\ pc = "upd_fetch"
    /\ IF unofficial_bop.intervals = <<>>
       THEN /\ pc' = "done"
            /\ UNCHANGED <<official_bop, fetches, raised>>
       ELSE \E reply \in Replies(unofficial_bop.ts_from, unofficial_bop.ts_to) :
            LET r == get_batch_of_prices_for_region(unofficial_bop.ts_from,
                                                    unofficial_bop.ts_to,
                                                    NordPoolStatus.official, reply)
            IN  /\ fetches' = Append(fetches, [status |-> NordPoolStatus.official,
                                               start |-> unofficial_bop.ts_from,
                                               end |-> unofficial_bop.ts_to,
                                               kind |-> reply.kind])
                /\ IF r.raised # ""
                   THEN /\ raised' = r.raised
                        /\ pc' = "raised"
                        /\ UNCHANGED official_bop
                   ELSE /\ official_bop' = r.bop
                        /\ pc' = "upd_emit"
                        /\ UNCHANGED raised
    /\ UNCHANGED <<start_utc, end_utc, provisional_bop, merged_bop, abomination_bop,
                   events, generated>>
    /\ UNCHANGED <<algVars, restVars>>

\* update_unofficial_prices.py 57-60: emit the official event if any price
\* was fetched
UpdEmit ==
    /\ pc = "upd_emit"
    /\ events' = IF official_bop.intervals # <<>>
                 THEN Append(events, Prices(official_bop, "nordpool_official",
                                            price_expiry))
                 ELSE events
    /\ pc' = "done"
    /\ UNCHANGED <<start_utc, end_utc, official_bop, provisional_bop, merged_bop,
                   abomination_bop, fetches, generated, raised>>
    /\ UNCHANGED <<algVars, restVars>>

\* a wrapper that retries whatever the attempt raised
RetryOnAnyException ==
    /\ pc = "raised"
    /\ attempt < MaxAttempts
    /\ attempt' = attempt + 1
    /\ earlier' = Folded
    /\ pc' = "enter"
    /\ official_bop' = Unset
    /\ provisional_bop' = Unset
    /\ merged_bop' = Unset
    /\ abomination_bop' = Unset
    /\ unofficial_bop' = Unset
    /\ events' = <<>>
    /\ fetches' = <<>>
    /\ generated' = <<>>
    /\ raised' = ""
    /\ UNCHANGED <<start_utc, end_utc, wrapped>>
    /\ UNCHANGED <<algVars, tokVars, tfVars>>

\* a wrapper that resumes the failed attempt at the stage that raised
RetryResume ==
    /\ pc = "raised"
    /\ raised = "NordPoolException"
    /\ attempt < MaxAttempts
    /\ attempt' = attempt + 1
    /\ earlier' = Folded
    /\ pc' = IF FailedStage = "from_db" THEN "enter" ELSE FailedStage
    /\ events' = <<>>
    /\ raised' = ""
    /\ UNCHANGED <<official_bop, provisional_bop, merged_bop, abomination_bop,
                   unofficial_bop, fetches, generated>>
    /\ UNCHANGED <<start_utc, end_utc, wrapped>>
    /\ UNCHANGED <<algVars, tokVars, tfVars>>

\* @retry, prices.py 152-156 and update_unofficial_prices.py 33-37: after a
\* NordPoolException of attempt 1 or 2 the decorated function is called
\* again from its first line; what the failed attempt published stays
\* published (it moves from events to earlier)
Retry ==
    /\ pc = "raised"
    /\ raised = "NordPoolException"
    /\ attempt < MaxAttempts
    /\ attempt' = attempt + 1
    /\ earlier' = Folded
    /\ pc' = "enter"
    /\ official_bop' = Unset
    /\ provisional_bop' = Unset
    /\ merged_bop' = Unset
    /\ abomination_bop' = Unset
    /\ unofficial_bop' = Unset
    /\ events' = <<>>
    /\ fetches' = <<>>
    /\ generated' = <<>>
    /\ raised' = ""
    /\ UNCHANGED <<start_utc, end_utc, wrapped>>
    /\ UNCHANGED <<algVars, tokVars, tfVars>>

\* stop_after_attempt(3): the NordPoolException of the third attempt ends the
\* invocation; tenacity raises RetryError to the caller
Exhausted ==
    /\ pc = "raised"
    /\ raised = "NordPoolException"
    /\ attempt = MaxAttempts
    /\ pc' = "failed"
    /\ raised' = "RetryError"
    /\ UNCHANGED <<start_utc, end_utc, official_bop, provisional_bop, merged_bop,
                   abomination_bop, events, fetches, generated>>
    /\ UNCHANGED <<algVars, restVars>>

RetryNext ==
    \/ EnterEmit
    \/ FetchOfficial
    \/ EmitOfficial
    \/ CheckOfficial
    \/ FetchProvisional
    \/ EmitProvisional
    \/ CheckMerged
    \/ Generate
    \/ GenerateRaises
    \/ EmitGenerated
    \/ UpdFromDb
    \/ UpdFetch
    \/ UpdEmit
    \/ Retry
    \/ Exhausted

RetrySpec == RetryInit /\ [][RetryNext]_vars

\* the invocation has ended: it returned, an exception other than
\* NordPoolException left it, or the attempts are used up
Ended ==
    \/ pc \in {"done", "failed"}
    \/ pc = "raised" /\ raised # "NordPoolException"

\* a step of the wrapper obeys the retry policy
RetryPolicyStep ==
    /\ ~Ended
    /\ attempt' # attempt =>
            /\ attempt' = attempt + 1
            /\ pc = "raised" /\ raised = "NordPoolException"
            /\ pc' = "enter"
    /\ pc' = "enter" => attempt' = attempt + 1
    /\ (pc = "raised" /\ raised = "NordPoolException") =>
            IF attempt < MaxAttempts
            THEN attempt' = attempt + 1 /\ pc' = "enter" /\ raised' = ""
            ELSE attempt' = attempt /\ pc' = "failed" /\ raised' = "RetryError"

\* C14: the wrapped function is attempted at most 3 times; a new attempt
\* starts only after the previous one raised NordPoolException; after a
\* successful attempt or any other exception no further step is taken; the
\* NordPoolException of the third attempt surfaces as the final failure.
C14_RetryPolicy ==
    /\ [](attempt \in 1..MaxAttempts)
    /\ [](Len(earlier.causes) = attempt - 1)
    /\ [][RetryPolicyStep]_vars

\* three attempts failed and the failure has surfaced
C14_Witness ==
    /\ pc = "failed"
    /\ raised = "RetryError"
    /\ attempt = MaxAttempts
    /\ Len(earlier.causes) = MaxAttempts - 1

\* C18: the update path requests the official prices only when the reduced
\* stored batch has an interval, and then for exactly the envelope of the
\* stored intervals; it emits an official event only for a non-empty fetched
\* batch, so a failed or empty fetch publishes nothing, and an attempt emits
\* at most one event.
C18_UpdateFetchesEnvelope ==
    wrapped = "_update_unofficial_prices" =>
        /\ Len(fetches) <= 1
        /\ Len(events) <= 1
        /\ pc \in {"upd_emit", "done"} /\ unofficial_bop.intervals = <<>>
                => fetches = <<>> /\ events = <<>>
        /\ \A i \in DOMAIN fetches :
            LET ivs == unofficial_bop.intervals
            IN  /\ ivs # <<>>
                /\ fetches[i].status = NordPoolStatus.official
                /\ fetches[i].start = ivs[1].start
                /\ fetches[i].end = ivs[Len(ivs)].end
                /\ fetches[i].start >= start_utc
                /\ fetches[i].end <= end_utc
        /\ \A i \in DOMAIN events :
            /\ events[i].origin = "nordpool_official"
            /\ events[i].prices = official_bop
            /\ events[i].prices.intervals # <<>>
            /\ fetches # <<>> /\ fetches[1].kind = "ok"
        /\ (pc = "done" /\ fetches # <<>> /\ official_bop.intervals = <<>>)
                => events = <<>>
        /\ (pc = "done" /\ fetches # <<>> /\ official_bop.intervals # <<>>)
                => Len(events) = 1

\* the stored intervals cover only the end of the window: the fetch asks for
\* that part and its prices are published
C18_Witness ==
    /\ wrapped = "_update_unofficial_prices"
    /\ pc = "done"
    /\ Len(events) = 1
    /\ fetches[1].start > start_utc
    /\ fetches[1].end = end_utc

\* the stages in which the provider is asked for prices
FetchStages == {"fetch_official", "fetch_provisional"}

\* C19: no NordPoolException of a price fetch reaches the retry wrapper: no
\* attempt ends with NordPoolException in a fetch stage, so every further
\* attempt was caused by a NordPoolException raised outside the fetch stages,
\* and an attempt whose fetches all failed with a provider error goes on.
C19_FetchOutageNeverRetries ==
    /\ \A i \in DOMAIN earlier.causes : earlier.causes[i] \notin FetchStages
    /\ (pc = "raised" /\ raised = "NordPoolException") => FailedStage \notin FetchStages
    /\ (pc = "raised" /\ FailedStage \in FetchStages) =>
            get_prices_raises([kind |-> fetches[Len(fetches)].kind, values |-> <<>>])
                \notin {"", "NordPoolException"}

\* the second attempt, started after the backfill stage of the first raised
\* NordPoolException, has met a provider error in both fetches and has
\* returned without a further attempt
C19_Witness ==
    /\ wrapped = "emit_prices_from_nordpool"
    /\ attempt = 2
    /\ earlier.causes = <<"generate">>
    /\ Len(fetches) = 2
    /\ \A i \in DOMAIN fetches : fetches[i].kind \in ProviderErrors
    /\ pc = "done"
    /\ EventCount("generated") = 1

\* the official events of the invocation so far
TotalOfficial == earlier.official + EventCount("nordpool_official")

\* the running attempt has passed its official emit
PastOfficialEmit ==
    /\ pc \notin {"enter", "fetch_official", "emit_official"}
    /\ official_bop # Unset

\* C20: a retried attempt of emit_prices_from_nordpool starts again at the
\* official stage with no local of the failed attempt; what the failed attempt
\* emitted is not withdrawn, and the official events of the invocation number
\* the attempts that reached the official emit (at most 3).
C20_RetryRestartsPipeline ==
    /\ [](wrapped = "emit_prices_from_nordpool" =>
            /\ earlier.official =
                Cardinality({i \in DOMAIN earlier.causes :
                                earlier.causes[i] # "fetch_official"})
            /\ EventCount("nordpool_official") = IF PastOfficialEmit THEN 1 ELSE 0
            /\ TotalOfficial <= MaxAttempts
            /\ fetches # <<>> => fetches[1].status = NordPoolStatus.official
            /\ pc = "enter" => /\ official_bop = Unset /\ provisional_bop = Unset
                               /\ merged_bop = Unset /\ abomination_bop = Unset
                               /\ fetches = <<>> /\ generated = <<>>)
    /\ [][wrapped = "emit_prices_from_nordpool" =>
            /\ TotalOfficial' >= TotalOfficial
            /\ earlier.slots \subseteq earlier'.slots
            /\ attempt' # attempt =>
                    /\ pc' = "enter"
                    /\ TotalOfficial' = TotalOfficial
                    /\ earlier'.slots = earlier.slots \cup OfficialSlotsPublished]_vars

\* the third attempt has published an official event holding a slot that an
\* earlier attempt had published already
C20_Witness ==
    /\ wrapped = "emit_prices_from_nordpool"
    /\ attempt = MaxAttempts
    /\ TotalOfficial = MaxAttempts
    /\ OfficialSlotsPublished \cap earlier.slots # {}

\* ---- the credential of the market client --------------------------------
\* timedelta(minutes=10), the safety margin of the staleness check
SafetyMargin == 10

\* concurrent callers of renew_nordpool_token_if_needed sharing the store
Callers == 2

\* calls made in all
MaxCalls == 3

\* utcnow is followed up to this minute
MaxNow == 10

\* minutes by which utcnow advances between two steps
Ticks == {10}

\* expires_in of the provider's token responses, in minutes
Lifetimes == {15}

\* expires_at of the credential the store holds at the start, if any
InitialExpiries == {5, 10, 15}

\* NordPoolTokenResponse(access_token, expires_at, token_type)
NordPoolTokenResponse(access_token, expires_at) ==
    [access_token |-> access_token, expires_at |-> expires_at, token_type |-> "Bearer"]

\* value.json(): the datetime becomes its ISO string
ToJson(token) ==
    [access_token |-> token.access_token,
     expires_at |-> <<"iso", token.expires_at>>,
     token_type |-> token.token_type]

\* dateutil.parser.parse of an ISO string written by ToJson
parse(iso) == iso[2]

\* NordPoolTokenResponse(**token_object)
FromTokenObject(token_object) ==
    NordPoolTokenResponse(token_object.access_token, parse(token_object.expires_at))

\* the calls made so far
RECURSIVE CallsMade(_)
CallsMade(c) == IF c = 0 THEN 0 ELSE tok_calls[c].n + CallsMade(c - 1)

\* a caller that is not inside a call (result is what its last call returned)
IdleCaller ==
    [pc |-> "idle", n |-> 0, seen |-> <<>>, checked_at |-> 0, path |-> "",
     new |-> <<>>, result |-> <<>>]

\* the staleness test with the boundary on the stale side
IsStaleInclusive(token_object, now) ==
    \/ token_object = <<>>
    \/ parse(token_object[1].expires_at) <= now + SafetyMargin

\* nordpool_client.py 60-62: not token_object or
\* parse(token_object.get("expires_at")) < utcnow() + timedelta(minutes=10)
IsStale(token_object, now) ==
    \/ token_object = <<>>
    \/ parse(token_object[1].expires_at) < now + SafetyMargin

TokenInit ==
    /\ pc = "token"
    /\ start_utc = 0
    /\ end_utc = 0
    /\ official_bop = Unset
    /\ provisional_bop = Unset
    /\ merged_bop = Unset
    /\ abomination_bop = Unset
    /\ events = <<>>
    /\ fetches = <<>>
    /\ generated = <<>>
    /\ raised = ""
    /\ AlgIdle
    /\ RetryIdle
    /\ unofficial_bop = Unset
    /\ tok_store \in {<<>>} \cup
            {<<ToJson(NordPoolTokenResponse(0, e))>> : e \in InitialExpiries}
    /\ tok_now = 0
    /\ tok_calls = [c \in 1..Callers |-> IdleCaller]
    /\ tok_issued = 0
    /\ TfIdle

\* everything the token actions leave alone
nonTokVars == <<pipeVars, algVars, retryVars, unofficial_bop, tfVars>>

\* nordpool_client.py 74: a caller enters renew_nordpool_token_if_needed
CallRenew(c) ==
    /\ tok_calls[c].pc \in {"idle", "returned", "raised"}
    /\ CallsMade(Callers) < MaxCalls
    /\ tok_calls' = [tok_calls EXCEPT ![c] =
            [IdleCaller EXCEPT !.pc = "get_token", !.n = tok_calls[c].n + 1,
                               !.result = tok_calls[c].result]]
    /\ UNCHANGED <<tok_store, tok_now, tok_issued>>
    /\ UNCHANGED nonTokVars

\* a caller that takes the credential its previous call returned, if any,
\* instead of reading the store
GetTokenInMemory(c) ==
    /\ tok_calls[c].pc = "get_token"
    /\ tok_calls' = [tok_calls EXCEPT ![c].pc = "check",
            ![c].seen = IF tok_calls[c].result # <<>>
                        THEN <<ToJson(tok_calls[c].result[1])>>
                        ELSE tok_store]
    /\ UNCHANGED <<tok_store, tok_now, tok_issued>>
    /\ UNCHANGED nonTokVars

\* nordpool_client.py 59, storage.py 23-27: read the stored token object
\* (None when the key is absent)
GetToken(c) ==
    /\ tok_calls[c].pc = "get_token"
    /\ tok_calls' = [tok_calls EXCEPT ![c].pc = "check", ![c].seen = tok_store]
    /\ UNCHANGED <<tok_store, tok_now, tok_issued>>
    /\ UNCHANGED nonTokVars

\* the staleness check sending the boundary to the provider
CheckExpiryInclusive(c) ==
    /\ tok_calls[c].pc = "check"
    /\ LET token_object == tok_calls[c].seen
       IN  tok_calls' = [tok_calls EXCEPT ![c] =
                IF IsStaleInclusive(token_object, tok_now)
                THEN [@ EXCEPT !.pc = "request", !.checked_at = tok_now]
                ELSE [@ EXCEPT !.pc = "returned", !.checked_at = tok_now,
                               !.path = "stored",
                               !.result = <<FromTokenObject(token_object[1])>>]]
    /\ UNCHANGED <<tok_store, tok_now, tok_issued>>
    /\ UNCHANGED nonTokVars

\* nordpool_client.py 60-64: a missing or stale credential is renewed, any
\* other is returned as read
CheckExpiry(c) ==
    /\ tok_calls[c].pc = "check"
    /\ LET token_object == tok_calls[c].seen
       IN  tok_calls' = [tok_calls EXCEPT ![c] =
                IF IsStale(token_object, tok_now)
                THEN [@ EXCEPT !.pc = "request", !.checked_at = tok_now]
                ELSE [@ EXCEPT !.pc = "returned", !.checked_at = tok_now,
                               !.path = "stored",
                               !.result = <<FromTokenObject(token_object[1])>>]]
    /\ UNCHANGED <<tok_store, tok_now, tok_issued>>
    /\ UNCHANGED nonTokVars

\* nordpool_client.py 44-54: the token request; it fails, or the provider
\* issues a credential that expires expires_in after utcnow
RequestToken(c) ==
    /\ tok_calls[c].pc = "request"
    /\ \/ /\ tok_calls' = [tok_calls EXCEPT ![c].pc = "raised", ![c].result = <<>>]
          /\ UNCHANGED tok_issued
       \/ /\ tok_issued' = tok_issued + 1
          /\ \E expires_in \in Lifetimes :
                tok_calls' = [tok_calls EXCEPT ![c].pc = "save",
                    ![c].new = <<NordPoolTokenResponse(tok_issued + 1,
                                                       tok_now + expires_in)>>]
    /\ UNCHANGED <<tok_store, tok_now>>
    /\ UNCHANGED nonTokVars

\* nordpool_client.py 55-56, storage.py 20-21: store the new credential as
\* JSON and return it
SaveToken(c) ==
    /\ tok_calls[c].pc = "save"
    /\ tok_store' = <<ToJson(tok_calls[c].new[1])>>
    /\ tok_calls' = [tok_calls EXCEPT ![c].pc = "returned", ![c].path = "renewed",
                                      ![c].result = tok_calls[c].new]
    /\ UNCHANGED <<tok_now, tok_issued>>
    /\ UNCHANGED nonTokVars

\* utcnow advances
Tick ==
    /\ \E d \in Ticks :
        /\ tok_now + d <= MaxNow
        /\ tok_now' = tok_now + d
    /\ UNCHANGED <<tok_store, tok_calls, tok_issued>>
    /\ UNCHANGED nonTokVars

TokenNext ==
    \/ \E c \in 1..Callers : CallRenew(c)
    \/ \E c \in 1..Callers : GetToken(c)
    \/ \E c \in 1..Callers : CheckExpiry(c)
    \/ \E c \in 1..Callers : RequestToken(c)
    \/ \E c \in 1..Callers : SaveToken(c)
    \/ Tick

TokenSpec == TokenInit /\ [][TokenNext]_vars

\* caller c has got its credential from renew_nordpool_token_if_needed
Returned(c) == tok_calls[c].pc = "returned"

\* caller c passes from one position of its call to another in this step
Moves(c, from, to) == tok_calls[c].pc = from /\ tok_calls'[c].pc = to

\* C15: renew_nordpool_token_if_needed returns the stored credential without
\* a token request exactly when one is stored with expires_at >= now + 10
\* min; otherwise it requests a new credential, writes it to the store and
\* returns it; a returned stored credential is never inside the margin.
C15_CredentialStaleness ==
    /\ [](\A c \in 1..Callers :
            LET call == tok_calls[c]
            IN  /\ call.pc \in {"request", "save", "raised"} =>
                        IsStale(call.seen, call.checked_at)
                /\ (Returned(c) /\ call.path = "stored") =>
                        /\ call.seen # <<>>
                        /\ parse(call.seen[1].expires_at) >= call.checked_at + SafetyMargin
                        /\ call.result = <<FromTokenObject(call.seen[1])>>
                        /\ call.result[1].expires_at >= call.checked_at + SafetyMargin
                        /\ call.new = <<>>
                /\ (Returned(c) /\ call.path = "renewed") =>
                        /\ IsStale(call.seen, call.checked_at)
                        /\ call.new # <<>>
                        /\ call.result = call.new
                        /\ call.seen # <<>> =>
                            call.result[1].access_token # call.seen[1].access_token
                /\ Returned(c) => call.path \in {"stored", "renewed"})
    /\ [][\A c \in 1..Callers :
            /\ Moves(c, "check", "returned") =>
                    /\ ~IsStale(tok_calls[c].seen, tok_now)
                    /\ tok_issued' = tok_issued
                    /\ tok_store' = tok_store
            /\ Moves(c, "check", "request") => IsStale(tok_calls[c].seen, tok_now)
            /\ Moves(c, "save", "returned") =>
                    /\ tok_store' = <<ToJson(tok_calls'[c].result[1])>>
                    /\ FromTokenObject(tok_store'[1]) = tok_calls[c].new[1]]_vars

\* a stored credential expiring exactly 10 minutes after the check is
\* returned as it is, and another call has renewed a stale one
C15_Witness ==
    \E c, d \in 1..Callers :
        /\ Returned(c)
        /\ tok_calls[c].path = "stored"
        /\ tok_calls[c].result[1].expires_at = tok_calls[c].checked_at + SafetyMargin
        /\ Returned(d)
        /\ tok_calls[d].path = "renewed"
        /\ tok_calls[d].seen # <<>>

\* C16: with callers interleaved in any way, each caller that returns holds a
\* credential, never the stale one it read; the store holds what the last
\* save wrote; every call reads the store again and checks the expiry again.
C16_ConcurrentRefresh ==
    /\ [](\A c \in 1..Callers :
            Returned(c) =>
                /\ tok_calls[c].result # <<>>
                /\ tok_calls[c].path = "stored" =>
                        tok_calls[c].result[1].expires_at
                            >= tok_calls[c].checked_at + SafetyMargin
                /\ IsStale(tok_calls[c].seen, tok_calls[c].checked_at) =>
                        /\ tok_calls[c].path = "renewed"
                        /\ tok_calls[c].result[1].access_token > 0
                        /\ tok_calls[c].seen # <<>> =>
                            tok_calls[c].result[1].access_token
                                # tok_calls[c].seen[1].access_token)
    /\ [](tok_issued > 0 => \A c, d \in 1..Callers :
            (c # d /\ tok_calls[c].new # <<>> /\ tok_calls[d].new # <<>>)
                => tok_calls[c].new[1].access_token # tok_calls[d].new[1].access_token)
    /\ [][\A c \in 1..Callers :
            /\ Moves(c, "save", "returned") =>
                    tok_store' = <<ToJson(tok_calls[c].new[1])>>
            /\ Moves(c, "get_token", "check") => tok_calls'[c].seen = tok_store
            /\ (tok_calls'[c].pc = "check" /\ tok_calls[c].pc # "check")
                    => tok_calls[c].pc = "get_token"
            /\ (/\ tok_calls'[c].pc \in {"request", "returned"}
                /\ tok_calls[c].pc # tok_calls'[c].pc
                /\ tok_calls[c].pc # "save")
                    => /\ tok_calls[c].pc = "check"
                       /\ tok_calls'[c].checked_at = tok_now]_vars
    /\ [][tok_store' # tok_store =>
            \E c \in 1..Callers : Moves(c, "save", "returned")]_vars

\* two callers have read the same absent or stale credential, both have got a
\* new one, and the store holds the one issued first because it was saved last
C16_Witness ==
    \E c, d \in 1..Callers :
        /\ c # d
        /\ Returned(c) /\ Returned(d)
        /\ tok_calls[c].path = "renewed" /\ tok_calls[d].path = "renewed"
        /\ tok_calls[c].seen = tok_calls[d].seen
        /\ tok_calls[c].result[1].access_token = 1
        /\ tok_calls[d].result[1].access_token = 2
        /\ tok_store = <<ToJson(tok_calls[c].result[1])>>

\* ---- the timeframe calculator -------------------------------------------
\* local "now" ranges over this many days; time is counted in hours from a
\* Monday 00:00 local
TfDays == 7

\* timedelta(days=n), in hours
Days(n) == 24 * n

\* datetime.weekday() of a local time: 0 is Monday
weekday(local) == (local \div 24) % 7

\* local.replace(hour=0, minute=0, second=0, microsecond=0)
Truncated(local) == local - (local % 24)

\* the timezone rules of the regions: hours ahead of UTC, and the local hour
\* from which the clock is one more hour ahead (daylight saving)
Regions ==
    {[utc_offset |-> o, dst_from |-> d] :
        o \in {-1, 0, 2},
        d \in {Days(TfDays + 2) + 3, Days(3 * TfDays)}}

\* region.timezone.convert_local_time_to_utc
convert_local_time_to_utc(region, local) ==
    local - region.utc_offset - (IF local >= region.dst_from THEN 1 ELSE 0)

\* the calculator looking back one day on every weekday
get_timeframe_for_regionOneDay(region, local_now) ==
    LET truncated_local_now == Truncated(local_now)
        start_local == truncated_local_now - Days(1)
        end_local == truncated_local_now + Days(2)
    IN  [start_local |-> start_local, end_local |-> end_local,
         start_utc |-> convert_local_time_to_utc(region, start_local),
         end_utc |-> convert_local_time_to_utc(region, end_local)]

\* prices.py 136-149
get_timeframe_for_region(region, local_now) ==
    LET is_monday == weekday(local_now) = 0
        days_behind_today == IF is_monday THEN 3 ELSE 1
        truncated_local_now == Truncated(local_now)
        start_local == truncated_local_now - Days(days_behind_today)
        end_local == truncated_local_now + Days(2)
    IN  [start_local |-> start_local, end_local |-> end_local,
         start_utc |-> convert_local_time_to_utc(region, start_local),
         end_utc |-> convert_local_time_to_utc(region, end_local)]

TimeInit ==
    /\ pc = "timeframe"
    /\ start_utc = 0
    /\ end_utc = 0
    /\ official_bop = Unset
    /\ provisional_bop = Unset
    /\ merged_bop = Unset
    /\ abomination_bop = Unset
    /\ events = <<>>
    /\ fetches = <<>>
    /\ generated = <<>>
    /\ raised = ""
    /\ AlgIdle
    /\ RetryIdle
    /\ unofficial_bop = Unset
    /\ TokIdle
    /\ tf_now \in Days(TfDays)..(Days(2 * TfDays) - 1)
    /\ tf_region \in Regions
    /\ tf_res = <<>>

\* prices.py 161: start_utc, end_utc = get_timeframe_for_region(region)
ComputeTimeframe ==
    /\ tf_res = <<>>
    /\ tf_res' = <<get_timeframe_for_region(tf_region, tf_now)>>
    /\ UNCHANGED <<tf_now, tf_region>>
    /\ UNCHANGED <<pipeVars, algVars, retryVars, unofficial_bop, tokVars>>

TimeNext == ComputeTimeframe

TimeSpec == TimeInit /\ [][TimeNext]_vars

\* C17: the timeframe starts at local midnight 3 days before today if today
\* is a Monday and 1 day before otherwise, ends at local midnight 2 days
\* after today, and both bounds are converted to UTC; so the local window is
\* 5 days long on Mondays and 3 days long otherwise, with start < end.
C17_Timeframe ==
    tf_res # <<>> =>
        LET r == tf_res[1]
            today == tf_now - (tf_now % 24)
            monday == (tf_now \div 24) % 7 = 0
        IN  /\ r.start_local = today - (IF monday THEN 72 ELSE 24)
            /\ r.end_local = today + 48
            /\ r.end_local - r.start_local = IF monday THEN 120 ELSE 72
            /\ r.start_local % 24 = 0
            /\ r.end_local % 24 = 0
            /\ r.start_local < r.end_local
            /\ r.start_local <= tf_now /\ tf_now < r.end_local
            /\ r.start_utc = convert_local_time_to_utc(tf_region, r.start_local)
            /\ r.end_utc = convert_local_time_to_utc(tf_region, r.end_local)
            /\ r.start_utc < r.end_utc
            /\ r = get_timeframe_for_region(tf_region, tf_now)

\* a Monday afternoon in a region two hours ahead of UTC: the window is five
\* local days and its UTC bounds are not the local ones
C17_Witness ==
    /\ tf_res # <<>>
    /\ weekday(tf_now) = 0
    /\ tf_now % 24 = 15
    /\ tf_region.utc_offset = 2
    /\ tf_res[1].end_local - tf_res[1].start_local = 120
    /\ tf_res[1].start_utc = tf_res[1].start_local - 2

====
